---------------------------- MODULE Spec2Model ----------------------------
(***************************************************************************)
(* Splittable pseudorandom generators (rand-split): the Sip, Chaskey and   *)
(* TwoLCG backends, their branch (PRF) objects and the type-directed       *)
(* generation of tuples and arrays.                                        *)
(*                                                                         *)
(* Machine words are modelled at their full width.  A word is a tuple of   *)
(* bytes, least significant byte first: a u32 is 4 bytes, a u64 (and a     *)
(* usize, on a 64-bit target) is 8 bytes.  All arithmetic is the wrapping  *)
(* arithmetic of the source.                                               *)
(***************************************************************************)
EXTENDS Integers, Sequences, FiniteSets, TLC

(***************************************************************************)
(* Words                                                                   *)
(***************************************************************************)

RECURSIVE Pow2(_)
Pow2(n) == IF n = 0 THEN 1 ELSE 2 * Pow2(n - 1)

\* F(e), with e evaluated once and before F.
Let(e, F(_)) == CHOOSE r \in {F(x) : x \in {e}} : TRUE

RECURSIVE BitOp(_, _, _, _)
\* Bitwise combination of two n-bit numbers; op is "xor", "or" or "and".
BitOp(op, a, b, n) ==
    IF n = 0 THEN 0
    ELSE LET x == a % 2
             y == b % 2
             z == CASE op = "xor" -> (x + y) % 2
                    [] op = "or"  -> IF x + y > 0 THEN 1 ELSE 0
                    [] OTHER      -> x * y
         IN  z + 2 * BitOp(op, a \div 2, b \div 2, n - 1)

XorNib == [a \in 0..15 |-> [b \in 0..15 |-> BitOp("xor", a, b, 4)]]
OrNib  == [a \in 0..15 |-> [b \in 0..15 |-> BitOp("or", a, b, 4)]]
AndNib == [a \in 0..15 |-> [b \in 0..15 |-> BitOp("and", a, b, 4)]]

XorByte(a, b) == 16 * XorNib[a \div 16][b \div 16] + XorNib[a % 16][b % 16]
OrByte(a, b)  == 16 * OrNib[a \div 16][b \div 16] + OrNib[a % 16][b % 16]
AndByte(a, b) == 16 * AndNib[a \div 16][b \div 16] + AndNib[a % 16][b % 16]

\* A word given as a function on 1..n, as the tuple of its bytes.
Word(f) == f \o <<>>

\* a ^ b
Xor(a, b) == Word([k \in 1..Len(a) |-> XorByte(a[k], b[k])])
\* a | b
BitOr(a, b) == Word([k \in 1..Len(a) |-> OrByte(a[k], b[k])])
\* a & b
BitAnd(a, b) == Word([k \in 1..Len(a) |-> AndByte(a[k], b[k])])

\* The n-byte word whose value is the small number x (x < 2^31).
RECURSIVE FromNat(_, _)
FromNat(x, n) == IF n = 0 THEN <<>> ELSE <<x % 256>> \o FromNat(x \div 256, n - 1)

\* A u32 written as two 16-bit halves, high half first: 0xhhhh_llll.
U32(h, l) == <<l % 256, l \div 256, h % 256, h \div 256>>
\* A u64 written as four 16-bit quarters, highest first.
U64(a, b, c, d) == U32(c, d) \o U32(a, b)

Zero32 == U32(0, 0)
Zero64 == U64(0, 0, 0, 0)
One64  == U64(0, 0, 0, 1)
\* std::u32::MAX
U32MAX == U32(\Hffff, \Hffff)
U64MAX == U64(\Hffff, \Hffff, \Hffff, \Hffff)

RECURSIVE AddCarry(_, _, _, _)
AddCarry(a, b, k, c) ==
    IF k > Len(a) THEN <<>>
    ELSE LET s == a[k] + b[k] + c
         IN  <<s % 256>> \o AddCarry(a, b, k + 1, s \div 256)

\* a.wrapping_add(b): the carry out of the top byte is dropped.
wrapping_add(a, b) == AddCarry(a, b, 1, 0)

\* Whether a + b overflows the width of a and b (the carry out of the top byte).
RECURSIVE CarryOut(_, _, _, _)
CarryOut(a, b, k, c) ==
    IF k > Len(a) THEN c
    ELSE CarryOut(a, b, k + 1, (a[k] + b[k] + c) \div 256)

AddOverflows(a, b) == CarryOut(a, b, 1, 0) = 1

\* Byte k (1-based) of w, or 0 outside the word.
ByteAt(w, k) == IF k >= 1 /\ k <= Len(w) THEN w[k] ELSE 0

\* w.rotate_left(r)
rotate_left(w, r) ==
    LET n == Len(w)
        q == (r % (8 * n)) \div 8
        s == r % 8
        lo(j) == w[((j - q) % n) + 1]
        hi(j) == w[((j - q - 1) % n) + 1]
    IN  Word([k \in 1..n |-> ((lo(k - 1) % Pow2(8 - s)) * Pow2(s))
                             + (hi(k - 1) \div Pow2(8 - s))])

\* w.wrapping_shl(r), also w << r on a Wrapping: the shift is taken modulo the width.
wrapping_shl(w, r) ==
    LET n == Len(w)
        q == (r % (8 * n)) \div 8
        s == r % 8
    IN  Word([k \in 1..n |-> ((ByteAt(w, k - q) % Pow2(8 - s)) * Pow2(s))
                             + (ByteAt(w, k - q - 1) \div Pow2(8 - s))])

\* w.wrapping_shr(r), also w >> r on a Wrapping.
wrapping_shr(w, r) ==
    LET n == Len(w)
        q == (r % (8 * n)) \div 8
        s == r % 8
    IN  Word([k \in 1..n |-> (ByteAt(w, k + q) \div Pow2(s))
                             + ((ByteAt(w, k + q + 1) % Pow2(s)) * Pow2(8 - s))])

\* !w
BitNot(w) == Word([k \in 1..Len(w) |-> 255 - w[k]])

\* -w on a Wrapping
wrapping_neg(w) == wrapping_add(BitNot(w), FromNat(1, Len(w)))

RECURSIVE ColSum(_, _, _, _)
\* Sum of a[i] * b[k + 1 - i] for i in 1..m: column k of the schoolbook product.
ColSum(a, b, k, m) ==
    IF m = 0 THEN 0 ELSE a[m] * b[k + 1 - m] + ColSum(a, b, k, m - 1)

RECURSIVE MulCarry(_, _, _, _)
MulCarry(a, b, k, c) ==
    IF k > Len(a) THEN <<>>
    ELSE LET s == ColSum(a, b, k, k) + c
         IN  <<s % 256>> \o MulCarry(a, b, k + 1, s \div 256)

\* a * b on Wrapping values: the product modulo 2^(width).
wrapping_mul(a, b) == MulCarry(a, b, 1, 0)

\* x as u32 (truncation) and x as u64 (zero extension)
AsU32(w) == SubSeq(w, 1, 4)
AsU64(w) == Word([k \in 1..8 |-> ByteAt(w, k)])


(***************************************************************************)
(* SipRng (siprng.rs)                                                      *)
(***************************************************************************)

C0 == U64(\H736f, \H6d65, \H7073, \H6575)
C1 == U64(\H646f, \H7261, \H6e64, \H6f6d)
C2 == U64(\H6c79, \H6765, \H6e65, \H7261)
C3 == U64(\H7465, \H6462, \H7974, \H6573)

\* One statement of a round on the words v: <<"add", d, a, b>> is
\* v[d] = v[a].wrapping_add(v[b]), <<"xor", d, a, b>> is v[d] = v[a] ^ v[b],
\* <<"rotl", d, a, r>> is v[d] = v[a].rotate_left(r).  Words are numbered from 1.
Stmt(v, s) ==
    [v EXCEPT ![s[2]] = CASE s[1] = "add"  -> wrapping_add(v[s[3]], v[s[4]])
                          [] s[1] = "xor"  -> Xor(v[s[3]], v[s[4]])
                          [] s[1] = "rotl" -> rotate_left(v[s[3]], s[4])]

\* The statements of prog, in order.
RECURSIVE Run(_, _)
Run(v, prog) ==
    IF prog = <<>> THEN v
    ELSE Let(Stmt(v, Head(prog)), LAMBDA w : Run(w, Tail(prog)))

\* The round as the macro writes it, on v = <<v0, v1, v2, v3>>.  Its last
\* statement assigns v0.rotate_left(32) to v2.
sipround(v) ==
    Run(v, << <<"add", 1, 1, 2>>,   <<"add", 3, 3, 4>>,
              <<"rotl", 2, 2, 13>>, <<"rotl", 4, 4, 16>>,
              <<"xor", 2, 2, 1>>,   <<"xor", 4, 4, 3>>,
              <<"rotl", 1, 1, 32>>,
              <<"add", 3, 3, 2>>,   <<"add", 1, 1, 4>>,
              <<"rotl", 2, 2, 17>>, <<"rotl", 4, 4, 21>>,
              <<"xor", 2, 2, 3>>,   <<"xor", 4, 4, 1>>,
              <<"rotl", 3, 1, 32>> >>)

SipRng_new(k0, k1) ==
    [kind |-> "SipRng",
     v0 |-> Xor(k0, C0), v1 |-> Xor(k1, C1),
     v2 |-> Xor(k0, C2), v3 |-> Xor(k1, C3),
     ctr |-> Zero64, len |-> One64]

\* The registers of a SipRng.
Regs(g) == <<g.v0, g.v1, g.v2, g.v3>>

SipRng_advance(g) ==
    Let(sipround(<<g.v0, g.v1, g.v2, Xor(g.v3, g.ctr)>>), LAMBDA r :
        [g EXCEPT !.v0 = Xor(r[1], g.ctr), !.v1 = r[2], !.v2 = r[3], !.v3 = r[4],
                  !.ctr = wrapping_add(g.ctr, One64)])

SipRng_descend(g, i) ==
    Let(sipround(<<g.v0, g.v1, g.v2, Xor(g.v3, i)>>), LAMBDA r :
        [g EXCEPT !.v0 = Xor(r[1], i), !.v1 = r[2], !.v2 = r[3], !.v3 = r[4],
                  !.len = wrapping_add(g.len, One64),
                  !.ctr = Zero64])

\* #[derive(Clone)]
SipRng_clone(g) == g

\* A call that descends by a fixed index, whatever index it is given.
SipPrf_call_ignoring_index(p, i) == SipRng_descend(SipRng_clone(p.rng), Zero64)

\* SipPrf(SipRng): the branch object holds the generator it was taken from.
SipPrf_call(p, i) == SipRng_descend(SipRng_clone(p.rng), AsU64(i))

\* splitn(self): the generator is moved into the branch object.
SipRng_splitn(g) == [kind |-> "SipPrf", rng |-> g]

\* A next_u64 that finalizes in the stored registers instead of in copies.
SipRng_next_u64_in_place(g) ==
    Let(SipRng_advance(g), LAMBDA h :
    Let(wrapping_shl(h.len, 56), LAMBDA len :
    Let(sipround(<<h.v0, h.v1, h.v2, Xor(h.v3, len)>>), LAMBDA r1 :
    Let(<<Xor(r1[1], len), r1[2], Xor(r1[3], FromNat(\Hff, 8)), r1[4]>>, LAMBDA r2 :
    Let(sipround(sipround(sipround(r2))), LAMBDA r5 :
        [rng |-> [h EXCEPT !.v0 = r5[1], !.v1 = r5[2], !.v2 = r5[3], !.v3 = r5[4]],
         out |-> Xor(Xor(Xor(r5[1], r5[2]), r5[3]), r5[4])])))))

\* The finalization of next_u64, on copies v = <<v0, v1, v2, v3>> of the
\* registers and the length: one round keyed by the length, three more after
\* v2 ^= 0xff, and the XOR of the four words.
SipRng_finalize(v, len) ==
    Let(wrapping_shl(len, 56), LAMBDA l :
    Let(sipround(<<v[1], v[2], v[3], Xor(v[4], l)>>), LAMBDA a :
    Let(sipround(<<Xor(a[1], l), a[2], Xor(a[3], FromNat(\Hff, 8)), a[4]>>), LAMBDA b :
    Let(sipround(sipround(b)), LAMBDA d :
        Xor(Xor(d[1], d[2]), Xor(d[3], d[4]))))))

SipRng_next_u64(g) ==
    Let(SipRng_advance(g), LAMBDA h :
    Let(wrapping_shl(h.len, 56), LAMBDA len :
    Let(sipround(<<h.v0, h.v1, h.v2, Xor(h.v3, len)>>), LAMBDA r1 :
    Let(<<Xor(r1[1], len), r1[2], Xor(r1[3], FromNat(\Hff, 8)), r1[4]>>, LAMBDA r2 :
    Let(sipround(sipround(sipround(r2))), LAMBDA r5 :
        [rng |-> h, out |-> Xor(Xor(Xor(r5[1], r5[2]), r5[3]), r5[4])])))))

SipRng_next_u32(g) ==
    Let(SipRng_next_u64(g), LAMBDA r : [rng |-> r.rng, out |-> AsU32(r.out)])

\* mem::transmute::<u64, [u8; 8]>(w): the bytes of w in memory, in the byte
\* order of the target.
transmute(w, target_endian) ==
    IF target_endian = "little" THEN w ELSE [k \in 1..8 |-> w[9 - k]] \o <<>>

RECURSIVE SipRng_fill_bytes(_, _, _)

\* A fill that leaves a last chunk of fewer than 8 bytes as it found it.
SipRng_fill_bytes_whole_chunks(g, dest, target_endian) ==
    IF Len(dest) < 8 THEN [rng |-> g, dest |-> dest]
    ELSE Let(SipRng_next_u64(g), LAMBDA r :
         Let(transmute(r.out, target_endian), LAMBDA block :
         Let(SipRng_fill_bytes(r.rng, SubSeq(dest, 9, Len(dest)), target_endian), LAMBDA rest :
             [rng |-> rest.rng, dest |-> block \o rest.dest])))

\* fill_bytes(&mut self, dest): for each chunk of at most 8 bytes of dest, a
\* next_u64 whose bytes are copied to the chunk, as many as the chunk has.
SipRng_fill_bytes(g, dest, target_endian) ==
    IF dest = <<>> THEN [rng |-> g, dest |-> <<>>]
    ELSE Let(IF Len(dest) < 8 THEN Len(dest) ELSE 8, LAMBDA n :
         Let(SipRng_next_u64(g), LAMBDA r :
         Let(transmute(r.out, target_endian), LAMBDA block :
         Let(SipRng_fill_bytes(r.rng, SubSeq(dest, n + 1, Len(dest)), target_endian), LAMBDA rest :
             [rng |-> rest.rng, dest |-> SubSeq(block, 1, n) \o rest.dest]))))

SipRng_reseed(g, seed) ==
    [g EXCEPT !.v0 = Xor(seed[1], C0), !.v1 = Xor(seed[2], C1),
              !.v2 = Xor(seed[1], C2), !.v3 = Xor(seed[2], C3),
              !.len = One64, !.ctr = Zero64]

SipRng_from_seed(seed) == SipRng_new(seed[1], seed[2])

(***************************************************************************)
(* ChaskeyRng (chaskeyrng.rs)                                              *)
(***************************************************************************)

lsb32(n) == AsU32(n)
msb32(n) == lsb32(wrapping_shr(n, 32))

\* A small word as an array index.
AsIndex(w) == w[1]

times_two(key) ==
    LET C == <<Zero32, U32(0, \H87)>>
    IN  <<Xor(wrapping_shl(key[1], 1), C[AsIndex(wrapping_shr(key[4], 31)) + 1]),
          Xor(wrapping_shl(key[2], 1), wrapping_shr(key[1], 31)),
          Xor(wrapping_shl(key[3], 1), wrapping_shr(key[2], 31)),
          Xor(wrapping_shl(key[4], 1), wrapping_shr(key[3], 31))>>

xor_u32x4(state, block) ==
    <<Xor(state[1], block[1]), Xor(state[2], block[2]),
      Xor(state[3], block[3]), Xor(state[4], block[4])>>

\* The Chaskey round function, on v = <<v[0], v[1], v[2], v[3]>>.
round(v) ==
    Run(v, << <<"add", 1, 1, 2>>,   <<"add", 3, 3, 4>>,
              <<"rotl", 2, 2, 5>>,  <<"rotl", 4, 4, 8>>,
              <<"xor", 2, 2, 1>>,   <<"xor", 4, 4, 3>>,
              <<"rotl", 1, 1, 16>>,
              <<"add", 3, 3, 2>>,   <<"add", 1, 1, 4>>,
              <<"rotl", 2, 2, 7>>,  <<"rotl", 4, 4, 13>>,
              <<"xor", 2, 2, 3>>,   <<"xor", 4, 4, 1>>,
              <<"rotl", 3, 3, 16>> >>)

permute4(state) == round(round(round(round(state))))
permute8(state) == permute4(permute4(state))

\* An advance that computes the block from the register v.
ChaskeyRng_advance_from_v(g) ==
    LET block == <<Zero32, Zero32, lsb32(g.ctr), msb32(g.ctr)>>
        b1 == xor_u32x4(g.v, block)
        b2 == xor_u32x4(b1, g.k1)
        b3 == permute8(b2)
        b4 == xor_u32x4(b3, g.k1)
    IN  [g EXCEPT !.buf = b4, !.ctr = wrapping_add(g.ctr, One64), !.i = 0]

ChaskeyRng_advance(g) ==
    LET block == <<Zero32, Zero32, lsb32(g.ctr), msb32(g.ctr)>>
        b1 == xor_u32x4(g.buf, block)
        b2 == xor_u32x4(b1, g.k1)
        b3 == permute8(b2)
        b4 == xor_u32x4(b3, g.k1)
    IN  [g EXCEPT !.buf = b4, !.ctr = wrapping_add(g.ctr, One64), !.i = 0]

ChaskeyRng_new(seed) ==
    ChaskeyRng_advance([kind |-> "ChaskeyRng",
                        v |-> seed, k1 |-> times_two(seed), ctr |-> Zero64,
                        buf |-> <<Zero32, Zero32, Zero32, Zero32>>, i |-> 0])

\* A reseed that keeps the buffered block.
ChaskeyRng_reseed_keeping_buf(g, seed) ==
    ChaskeyRng_advance([g EXCEPT !.v = seed, !.k1 = times_two(seed), !.ctr = Zero64, !.i = 0])

ChaskeyRng_reseed(g, seed) ==
    ChaskeyRng_advance([g EXCEPT !.v = seed, !.k1 = times_two(seed), !.ctr = Zero64,
                                 !.buf = <<Zero32, Zero32, Zero32, Zero32>>, !.i = 0])

\* A clone that starts again at the head of the buffered block.
ChaskeyRng_clone_rewound(g) ==
    [kind |-> "ChaskeyRng", v |-> g.v, k1 |-> g.k1, ctr |-> g.ctr, buf |-> g.buf, i |-> 0]

ChaskeyRng_clone(g) ==
    [kind |-> "ChaskeyRng", v |-> g.v, k1 |-> g.k1, ctr |-> g.ctr, buf |-> g.buf, i |-> g.i]

\* A descent that leaves the cursor where it was.
ChaskeyRng_descend_keeping_cursor(g, i) ==
    LET block == <<U32MAX, i, lsb32(g.ctr), msb32(g.ctr)>>
    IN  [ChaskeyRng_advance([g EXCEPT !.buf = xor_u32x4(g.buf, block),
                                      !.v = permute8(g.v),
                                      !.ctr = Zero64]) EXCEPT !.i = g.i]

ChaskeyRng_descend(g, i) ==
    LET block == <<U32MAX, i, lsb32(g.ctr), msb32(g.ctr)>>
    IN  ChaskeyRng_advance([g EXCEPT !.buf = xor_u32x4(g.buf, block),
                                     !.v = permute8(g.v),
                                     !.ctr = Zero64])

\* ChaskeyPrf(ChaskeyRng)
ChaskeyPrf_call(p, i) == ChaskeyRng_descend(ChaskeyRng_clone(p.rng), AsU32(i))

\* A split that descends the child by the index of the parent.
ChaskeyRng_split_by_one_index(g) ==
    LET child == ChaskeyRng_clone(g)
    IN  [rng |-> ChaskeyRng_descend(g, Zero32), child |-> ChaskeyRng_descend(child, Zero32)]

\* split(&mut self): rng is self after the call, child the generator returned.
ChaskeyRng_split(g) ==
    LET child == ChaskeyRng_clone(g)
    IN  [rng |-> ChaskeyRng_descend(g, Zero32), child |-> ChaskeyRng_descend(child, U32(0, 1))]

\* splitn(&mut self): the branch object holds the child of a split.
ChaskeyRng_splitn(g) ==
    Let(ChaskeyRng_split(g), LAMBDA s :
        [rng |-> s.rng, prf |-> [kind |-> "ChaskeyPrf", rng |-> s.child]])

\* A draw that refills the buffer when one word of it is still unread.
ChaskeyRng_next_u32_refilling_early(g) ==
    Let(IF g.i >= 3 THEN ChaskeyRng_advance(g) ELSE g, LAMBDA h :
        [rng |-> [h EXCEPT !.i = h.i + 1], out |-> h.buf[h.i + 1]])

\* A draw that moves the cursor past the word after the one it returns.
ChaskeyRng_next_u32_skipping(g) ==
    Let(IF g.i >= 4 THEN ChaskeyRng_advance(g) ELSE g, LAMBDA h :
        [rng |-> [h EXCEPT !.i = h.i + 2], out |-> h.buf[h.i + 1]])

ChaskeyRng_next_u32(g) ==
    Let(IF g.i >= 4 THEN ChaskeyRng_advance(g) ELSE g, LAMBDA h :
        [rng |-> [h EXCEPT !.i = h.i + 1], out |-> h.buf[h.i + 1]])

\* Rng::next_u64 of the rand crate: two next_u32 draws, the first the high half.
ChaskeyRng_next_u64(g) ==
    Let(ChaskeyRng_next_u32(g), LAMBDA a :
    Let(ChaskeyRng_next_u32(a.rng), LAMBDA b :
        [rng |-> b.rng, out |-> BitOr(wrapping_shl(AsU64(a.out), 32), AsU64(b.out))]))

ChaskeyRng_from_seed(seed) == ChaskeyRng_new(seed)

(***************************************************************************)
(* TwoLcgRng (twolcg.rs)                                                   *)
(***************************************************************************)

TwoLcgRng_new(s1, s2, g1, g2) ==
    [kind |-> "TwoLcgRng", s1 |-> s1, s2 |-> s2,
     g1 |-> BitOr(g1, One64), g2 |-> BitOr(g2, One64)]

\* MASK, C0, C1, C2 of next_u64:
\* 0x3F, 2685821657736338717, 3202034522624059733, 3935559000370003845
TwoLcg_MASK == FromNat(\H3f, 8)
TwoLcg_C0 == U64(\H2545, \Hf491, \H4f6c, \Hdd1d)
TwoLcg_C1 == U64(\H2c6f, \He96e, \He78b, \H6955)
TwoLcg_C2 == U64(\H369d, \Hea0f, \H31a5, \H3f85)

TwoLcgRng_next_u64(g) ==
    Let(Xor(BitOr(wrapping_shl(g.s1, 32), wrapping_shr(g.s1, 32)), g.s2), LAMBDA r1 :
    Let(wrapping_shr(g.s1, 58), LAMBDA t :
    Let(BitOr(wrapping_shl(r1, AsIndex(BitAnd(t, TwoLcg_MASK))),
              wrapping_shr(r1, AsIndex(BitAnd(wrapping_neg(t), TwoLcg_MASK)))), LAMBDA r2 :
    Let(wrapping_mul(r2, TwoLcg_C0), LAMBDA r3 :
        [rng |-> [g EXCEPT !.s1 = wrapping_add(wrapping_mul(g.s1, TwoLcg_C1), g.g1),
                           !.s2 = wrapping_add(wrapping_mul(g.s2, TwoLcg_C2), g.g2)],
         out |-> Xor(r3, wrapping_shr(r3, 32))]))))

TwoLcgRng_next_u32(g) ==
    Let(TwoLcgRng_next_u64(g), LAMBDA r : [rng |-> r.rng, out |-> AsU32(r.out)])

TwoLcgRng_from_seed(seed) ==
    [kind |-> "TwoLcgRng", s1 |-> seed[1], s2 |-> seed[2],
     g1 |-> BitOr(seed[3], One64), g2 |-> BitOr(seed[4], One64)]

\* A reseed that takes the two multipliers as the seed gives them.
TwoLcgRng_reseed_as_given(g, seed) ==
    [g EXCEPT !.s1 = seed[1], !.s2 = seed[2], !.g1 = seed[3], !.g2 = seed[4]]

TwoLcgRng_reseed(g, seed) ==
    [g EXCEPT !.s1 = seed[1], !.s2 = seed[2],
              !.g1 = BitOr(seed[3], One64), !.g2 = BitOr(seed[4], One64)]

\* #[derive(Clone)]
TwoLcgRng_clone(g) == g

\* split(&mut self): self.gen::<[u64; 4]>() draws four words in order.
TwoLcgRng_split(g) ==
    Let(TwoLcgRng_next_u64(g), LAMBDA a :
    Let(TwoLcgRng_next_u64(a.rng), LAMBDA b :
    Let(TwoLcgRng_next_u64(b.rng), LAMBDA c :
    Let(TwoLcgRng_next_u64(c.rng), LAMBDA d :
        [rng |-> d.rng, child |-> TwoLcgRng_from_seed(<<a.out, b.out, c.out, d.out>>)]))))

TwoLcgRng_splitn(g) ==
    Let(TwoLcgRng_next_u64(g), LAMBDA a :
        [rng |-> a.rng, prf |-> [kind |-> "TwoLcgPrf", m |-> BitOr(a.out, One64)]])

\* k + n on a u32.  With overflow checks (a debug build) an overflowing sum
\* panics; without them (a release build) it wraps.
CheckedAdd(k, n, overflow_checks) ==
    [panic |-> overflow_checks /\ AddOverflows(k, FromNat(n, 4)),
     val |-> wrapping_add(k, FromNat(n, 4))]

\* call(&self, k): panic tells whether the call panicked instead of returning.
TwoLcgPrf_call(p, k, overflow_checks) ==
    LET FOUR == FromNat(4, 8)
        f(x) == wrapping_mul(wrapping_mul(FOUR, AsU64(x)), p.m)
    IN  Let(CheckedAdd(k, 1, overflow_checks), LAMBDA a1 :
        Let(CheckedAdd(k, 2, overflow_checks), LAMBDA a2 :
        Let(CheckedAdd(k, 3, overflow_checks), LAMBDA a3 :
            [panic |-> a1.panic \/ a2.panic \/ a3.panic,
             rng |-> TwoLcgRng_new(f(k), f(a2.val), f(a1.val), f(a3.val))])))

(***************************************************************************)
(* The traits (lib.rs): Rng, SeedableRng, SplitRng, SplitPrf               *)
(***************************************************************************)

Backends == {"SipRng", "ChaskeyRng", "TwoLcgRng"}

\* The backends that implement split(&mut self) -> Self.  siprng.rs implements
\* only splitn(self).
HasSplit(kind) == kind \in {"ChaskeyRng", "TwoLcgRng"}

\* What is left of a generator that was moved into its branch object.
Moved == [kind |-> "moved"]

next_u32(g) ==
    CASE g.kind = "SipRng"     -> SipRng_next_u32(g)
      [] g.kind = "ChaskeyRng" -> ChaskeyRng_next_u32(g)
      [] g.kind = "TwoLcgRng"  -> TwoLcgRng_next_u32(g)

next_u64(g) ==
    CASE g.kind = "SipRng"     -> SipRng_next_u64(g)
      [] g.kind = "ChaskeyRng" -> ChaskeyRng_next_u64(g)
      [] g.kind = "TwoLcgRng"  -> TwoLcgRng_next_u64(g)

clone(g) ==
    CASE g.kind = "SipRng"     -> SipRng_clone(g)
      [] g.kind = "ChaskeyRng" -> ChaskeyRng_clone(g)
      [] g.kind = "TwoLcgRng"  -> TwoLcgRng_clone(g)

from_seed(kind, seed) ==
    CASE kind = "SipRng"     -> SipRng_from_seed(seed)
      [] kind = "ChaskeyRng" -> ChaskeyRng_from_seed(seed)
      [] kind = "TwoLcgRng"  -> TwoLcgRng_from_seed(seed)

reseed(g, seed) ==
    CASE g.kind = "SipRng"     -> SipRng_reseed(g, seed)
      [] g.kind = "ChaskeyRng" -> ChaskeyRng_reseed(g, seed)
      [] g.kind = "TwoLcgRng"  -> TwoLcgRng_reseed(g, seed)

\* split(&mut self) -> Self: [rng |-> self afterwards, child |-> the result].
split(g) ==
    CASE g.kind = "ChaskeyRng" -> ChaskeyRng_split(g)
      [] g.kind = "TwoLcgRng"  -> TwoLcgRng_split(g)

\* splitn: [rng |-> self afterwards, prf |-> the branch object].
splitn(g) ==
    CASE g.kind = "SipRng"     -> [rng |-> Moved, prf |-> SipRng_splitn(g)]
      [] g.kind = "ChaskeyRng" -> ChaskeyRng_splitn(g)
      [] g.kind = "TwoLcgRng"  -> TwoLcgRng_splitn(g)

\* A call that descends the branch object in place instead of a copy of it.
call_in_place(p, i, overflow_checks) ==
    CASE p.kind = "SipPrf" ->
            Let(SipPrf_call(p, i), LAMBDA r :
                [prf |-> [p EXCEPT !.rng = r], panic |-> FALSE, rng |-> r])
      [] p.kind = "ChaskeyPrf" ->
            Let(ChaskeyPrf_call(p, i), LAMBDA r :
                [prf |-> [p EXCEPT !.rng = r], panic |-> FALSE, rng |-> r])
      [] p.kind = "TwoLcgPrf" ->
            Let(TwoLcgPrf_call(p, i, overflow_checks), LAMBDA r :
                [prf |-> [p EXCEPT !.m = r.rng.g1], panic |-> r.panic, rng |-> r.rng])

\* call(&self, i: u32) -> Rng: prf is the branch object afterwards, panic
\* whether the call panicked, rng the generator returned if it did not.
call(p, i, overflow_checks) ==
    CASE p.kind = "SipPrf" ->
            [prf |-> p, panic |-> FALSE, rng |-> SipPrf_call(p, i)]
      [] p.kind = "ChaskeyPrf" ->
            [prf |-> p, panic |-> FALSE, rng |-> ChaskeyPrf_call(p, i)]
      [] p.kind = "TwoLcgPrf" ->
            Let(TwoLcgPrf_call(p, i, overflow_checks), LAMBDA r :
                [prf |-> p, panic |-> r.panic, rng |-> r.rng])

\* The first n words of the stream of g (next_u32 draws).
RECURSIVE FirstWords(_, _)
FirstWords(g, n) ==
    IF n = 0 THEN <<>>
    ELSE Let(next_u32(g), LAMBDA r : <<r.out>> \o FirstWords(r.rng, n - 1))

(***************************************************************************)
(* SplitRand (lib.rs): type-directed generation                            *)
(***************************************************************************)

\* The types generated: u64, [elem; n] and tuples.
TyU64 == [tag |-> "u64"]
TyArray(elem, n) == [tag |-> "array", elem |-> elem, n |-> n]
TyTuple(comps) == [tag |-> "tuple", comps |-> comps]

\* The number of components of a tuple type, the length of an array type.
Arity(ty) == IF ty.tag = "tuple" THEN Len(ty.comps) ELSE ty.n

RECURSIVE Repeat(_, _)
Repeat(x, n) == IF n = 0 THEN <<>> ELSE <<x>> \o Repeat(x, n - 1)

\* split_rand(rng) at type ty: [rng |-> rng afterwards, val |-> the value].
RECURSIVE split_rand(_, _)

\* Seq(Rand::rand(rng)) at u64: one next_u64 of rng itself.
Seq_split_rand(g) == Let(next_u64(g), LAMBDA r : [rng |-> r.rng, val |-> r.out])

\* split_gen::<A>(&mut self)
split_gen(g, ty) == split_rand(g, ty)

RECURSIVE split_each(_, _)

\* Every element from the parent itself, one after the other, without a split.
split_each_from_parent(g, tys) ==
    IF tys = <<>> THEN [rng |-> g, val |-> <<>>]
    ELSE Let(split_gen(g, Head(tys)), LAMBDA c :
         Let(split_each(c.rng, Tail(tys)), LAMBDA rest :
             [rng |-> rest.rng, val |-> <<c.val>> \o rest.val]))

\* The last element from the parent itself instead of from a child of its own.
split_each_but_last(g, tys) ==
    IF tys = <<>> THEN [rng |-> g, val |-> <<>>]
    ELSE IF Len(tys) = 1
         THEN Let(split_gen(g, Head(tys)), LAMBDA c : [rng |-> c.rng, val |-> <<c.val>>])
         ELSE Let(split(g), LAMBDA s :
              Let(split_gen(s.child, Head(tys)), LAMBDA c :
              Let(split_each(s.rng, Tail(tys)), LAMBDA rest :
                  [rng |-> rest.rng, val |-> <<c.val>> \o rest.val])))

\* The elements from right to left: the last element from the first split.
split_each_backwards(g, tys) ==
    IF tys = <<>> THEN [rng |-> g, val |-> <<>>]
    ELSE Let(split_each(g, Tail(tys)), LAMBDA rest :
         Let(split(rest.rng), LAMBDA s :
         Let(split_gen(s.child, Head(tys)), LAMBDA c :
             [rng |-> s.rng, val |-> <<c.val>> \o rest.val])))

\* The body of tuple_impl and of array_impl: _rng.split().split_gen::<T>() for
\* each T of tys, from left to right.  The child is a temporary.
split_each(g, tys) ==
    IF tys = <<>> THEN [rng |-> g, val |-> <<>>]
    ELSE Let(split(g), LAMBDA s :
         Let(split_gen(s.child, Head(tys)), LAMBDA c :
         Let(split_each(s.rng, Tail(tys)), LAMBDA rest :
             [rng |-> rest.rng, val |-> <<c.val>> \o rest.val])))

tuple_impl(g, ty) == split_each(g, ty.comps)
array_impl(g, ty) == split_each(g, Repeat(ty.elem, ty.n))

split_rand(g, ty) ==
    CASE ty.tag = "u64"   -> Seq_split_rand(g)
      [] ty.tag = "tuple" -> tuple_impl(g, ty)
      [] ty.tag = "array" -> array_impl(g, ty)

\* g after n calls of split().
RECURSIVE SplitTimes(_, _)
SplitTimes(g, n) == IF n = 0 THEN g ELSE SplitTimes(split(g).rng, n - 1)

(***************************************************************************)
(* Inputs                                                                  *)
(***************************************************************************)

\* A seed of each backend: (1234567890, 987654321) is the seed of siprng.rs's
\* tests; the tests of the other backends draw theirs from the OS.
Seed1(kind) ==
    CASE kind = "SipRng" ->
            <<U64(0, 0, \H4996, \H02d2), U64(0, 0, \H3ade, \H68b1)>>
      [] kind = "ChaskeyRng" ->
            <<U32(\H0123, \H4567), U32(\H89ab, \Hcdef), U32(\Hdead, \Hbeef), U32(\H8000, 1)>>
      [] kind = "TwoLcgRng" ->
            <<U64(\Hfedc, \Hba98, \H7654, \H3210), U64(\H0123, \H4567, \H89ab, \Hcdef),
              U64(\H1111, \H1111, \H1111, \H1110), U64(\Hdead, \Hbeef, \Hdead, \Hbeef)>>

\* The all-zero seed: (0, 0) is the seed of siprng.rs's test_rng_clone.
Seed0(kind) ==
    CASE kind = "SipRng"     -> <<Zero64, Zero64>>
      [] kind = "ChaskeyRng" -> <<Zero32, Zero32, Zero32, Zero32>>
      [] kind = "TwoLcgRng"  -> <<Zero64, Zero64, Zero64, Zero64>>

Seeds(kind) == {Seed1(kind), Seed0(kind)}

\* Branch indices: the smallest and the three largest values of a u32.
Indices == {Zero32, U32(\Hffff, \Hfffd), U32(\Hffff, \Hfffe), U32MAX}

\* The number of operations a driver performs on one generator.
MaxOps == 3

\* The number of operations performed on a branch object and on the
\* generators it returns.
MaxCalls == 4

\* The lengths of the two array types of test_split_rand_independence,
\* [u64; 16] and [u64; 32], scaled down.
LenT0 == 2
LenT1 == 3

\* The number of iterations of the loop of test_split_rand_independence.
MaxRounds == 2

\* The number of times a generator has split before a test is given it.
MaxDepth == 2

\* The number of words drawn from a generator between two of its descents.
MaxWords == 6

\* The number of clones, reseeds, splits and branch calls that the driver of a
\* ChaskeyRng performs.
MaxDescents == 2

\* The number of words drawn from each of two generators between two descents.
MaxJoint == 1

\* How far below u64::MAX the counter of a long-running generator starts.
WrapMargin == 2

\* The number of leading words by which two streams are compared.
FewWords == 4

(***************************************************************************)
(* State                                                                   *)
(***************************************************************************)

VARIABLES
    ra,         \* a generator
    rb,         \* a second generator, built or cloned to be in the same state
    outa,       \* the words drawn from ra since it was built, reseeded or cloned
    outb,       \* the words drawn from rb since then
    hist,       \* the operations performed, in order
    ops,        \* the number of operations performed
    prf,        \* the branch object taken by splitn
    prf0,       \* that branch object as it was when splitn returned it
    memo,       \* index -> what the first call with that index returned
    last,       \* the last operation on the branch object
    panicked,   \* whether an operation panicked
    build,      \* "debug" (overflow checks on) or "release" (off); where the
                \* byte order of the target matters, "little" or "big"
    gen,        \* the generators of a test or of the tasks, by name
    vals,       \* what each of them has produced, in order
    before,     \* each of them as it was before its last generation, or at the start
    alone,      \* each task as it is when it runs its operations on its own
    fns         \* the generated functions (closures), by name

vars == <<ra, rb, outa, outb, hist, ops, prf, prf0, memo, last, panicked, build,
          gen, vals, before, alone, fns>>

pairVars == <<ra, rb, outa, outb>>
prfVars  == <<prf, prf0, memo, last, panicked, build>>
genVars  == <<gen, vals, before, alone, fns>>

NoPrf == [kind |-> "none"]
NoRng == [kind |-> "none"]

\* The last operation of the history.
LastOp == hist[Len(hist)]

\* The variables of the generation test, where they are not used.
NoGenVars ==
    /\ gen = <<>>
    /\ vals = <<>>
    /\ before = <<>>
    /\ alone = <<>>
    /\ fns = <<>>

\* The variables of the branch-object driver, where they are not used.
NoPrfVars ==
    /\ prf = NoPrf
    /\ prf0 = NoPrf
    /\ memo = <<>>
    /\ last = [op |-> "none"]
    /\ panicked = FALSE
    /\ build = "release"

(***************************************************************************)
(* Two generators in equal states, driven by the same operations           *)
(***************************************************************************)

Init ==
    /\ \E kind \in Backends : \E seed \in {Seed1(kind)} :
        /\ ra = from_seed(kind, seed)
        /\ rb = from_seed(kind, seed)
        /\ hist = <<[op |-> "from_seed", seed |-> seed]>>
    /\ outa = <<>>
    /\ outb = <<>>
    /\ ops = 0
    /\ NoPrfVars
    /\ NoGenVars

Draw32 ==
    /\ ops < MaxOps
    /\ \E a \in {next_u32(ra)}, b \in {next_u32(rb)} :
        /\ ra' = a.rng
        /\ rb' = b.rng
        /\ outa' = Append(outa, a.out)
        /\ outb' = Append(outb, b.out)
    /\ hist' = Append(hist, [op |-> "next_u32"])
    /\ ops' = ops + 1
    /\ UNCHANGED <<prfVars, genVars>>

Draw64 ==
    /\ ops < MaxOps
    /\ \E a \in {next_u64(ra)}, b \in {next_u64(rb)} :
        /\ ra' = a.rng
        /\ rb' = b.rng
        /\ outa' = Append(outa, a.out)
        /\ outb' = Append(outb, b.out)
    /\ hist' = Append(hist, [op |-> "next_u64"])
    /\ ops' = ops + 1
    /\ UNCHANGED <<prfVars, genVars>>

\* rb is replaced by a clone of ra, taken at this point of ra's stream.
Clone ==
    /\ ops < MaxOps
    /\ rb' = clone(ra)
    /\ outa' = <<>>
    /\ outb' = <<>>
    /\ hist' = Append(hist, [op |-> "clone"])
    /\ ops' = ops + 1
    /\ UNCHANGED <<ra, prfVars, genVars>>

Reseed ==
    /\ ops < MaxOps
    /\ \E seed \in Seeds(ra.kind) :
        /\ ra' = reseed(ra, seed)
        /\ rb' = reseed(rb, seed)
        /\ hist' = Append(hist, [op |-> "reseed", seed |-> seed])
    /\ outa' = <<>>
    /\ outb' = <<>>
    /\ ops' = ops + 1
    /\ UNCHANGED <<prfVars, genVars>>

\* Both generators split; the driver goes on with the parents or with the children.
Split ==
    /\ ops < MaxOps
    /\ HasSplit(ra.kind)
    /\ \E a \in {split(ra)}, b \in {split(rb)} :
        \E keep \in {"rng", "child"} :
            /\ ra' = a[keep]
            /\ rb' = b[keep]
            /\ hist' = Append(hist, [op |-> "split", keep |-> keep])
    /\ ops' = ops + 1
    /\ UNCHANGED <<outa, outb, prfVars, genVars>>

\* Both generators descend: a branch object is taken and called with an index.
Branch ==
    /\ ops < MaxOps
    /\ \E i \in {U32(0, 1)} :
        /\ ra' = call(splitn(ra).prf, i, FALSE).rng
        /\ rb' = call(splitn(rb).prf, i, FALSE).rng
        /\ hist' = Append(hist, [op |-> "branch", i |-> i])
    /\ ops' = ops + 1
    /\ UNCHANGED <<outa, outb, prfVars, genVars>>

Next == Draw32 \/ Draw64 \/ Clone \/ Reseed \/ Split \/ Branch

Spec == Init /\ [][Next]_vars

\* C2: two generators in equal states (built from the same seed, or one a clone
\* of the other taken at any point of its stream) that are driven by the same
\* operations produce the same output sequence.
C2_EqualStatesEqualOutputs == outa = outb

\* A generator is drawn from, cloned in the middle of a buffer, and both are
\* drawn from again.
C2_ClonedMidStream ==
    /\ Len(hist) = 4
    /\ hist[2].op = "next_u32"
    /\ hist[3].op = "clone"
    /\ hist[4].op = "next_u64"
    /\ Len(outa) = 1

\* C5: after reseed(s) a generator in any reachable state is in exactly the
\* state from_seed(s) constructs.
C5_ReseedIsFromSeed ==
    LastOp.op = "reseed" =>
        /\ ra = from_seed(ra.kind, LastOp.seed)
        /\ rb = from_seed(rb.kind, LastOp.seed)

\* A generator that descended and was drawn from is reseeded with a seed other
\* than the one it was built from.
C5_ReseededAfterUse ==
    /\ Len(hist) = 4
    /\ hist[2].op = "branch"
    /\ hist[3].op = "next_u32"
    /\ hist[4].op = "reseed"
    /\ hist[4].seed # hist[1].seed

\* C9: the parent after split() and the child it returns are call(0) and
\* call(1) of the branch object that splitn takes from the same state.
C9_SplitIsCallZeroAndOne ==
    [][(ops' = ops + 1 /\ hist'[Len(hist')].op = "split") =>
            /\ split(ra).rng = call(splitn(ra).prf, Zero32, FALSE).rng
            /\ split(ra).child = call(splitn(ra).prf, U32(0, 1), FALSE).rng]_vars

\* C18: a draw from a SipRng stores what one advance computes and nothing
\* else (the length stays), and the word it returns is the finalization of the
\* stored registers and the length.
C18_FinalizationKeepsState ==
    [][(ra.kind = "SipRng" /\ ops' = ops + 1
            /\ hist'[Len(hist')].op \in {"next_u32", "next_u64"}) =>
        /\ ra' = SipRng_advance(ra)
        /\ ra'.len = ra.len
        /\ outa'[Len(outa')] =
                IF hist'[Len(hist')].op = "next_u64"
                THEN SipRng_finalize(Regs(ra'), ra'.len)
                ELSE AsU32(SipRng_finalize(Regs(ra'), ra'.len))]_vars

\* A SipRng that descended, so that its length is 2, draws words of both widths.
C18_DrewAfterDescent ==
    /\ ra.kind = "SipRng"
    /\ Len(hist) = 4
    /\ hist[2].op = "branch"
    /\ hist[3].op = "next_u64"
    /\ hist[4].op = "next_u32"
    /\ ra.len = FromNat(2, 8)

\* Whether the word w is odd.
Odd(w) == w[1] % 2 = 1

\* C20: g1 and g2 of a TwoLcgRng are odd in every state, however the generator
\* was built (from_seed, reseed, split, a branch object's call, clone), and a
\* draw leaves them as they are.
C20_MultipliersOdd ==
    /\ ra.kind = "TwoLcgRng" => Odd(ra.g1) /\ Odd(ra.g2) /\ Odd(rb.g1) /\ Odd(rb.g2)
    /\ [][ra.kind = "TwoLcgRng" =>
            /\ Odd(ra'.g1) /\ Odd(ra'.g2) /\ Odd(rb'.g1) /\ Odd(rb'.g2)
            /\ (ops' = ops + 1 /\ hist'[Len(hist')].op \in {"next_u32", "next_u64"}) =>
                    ra'.g1 = ra.g1 /\ ra'.g2 = ra.g2]_vars

\* A TwoLcgRng reseeded with even multipliers in the seed is drawn from.
C20_DrewAfterReseed ==
    /\ ra.kind = "TwoLcgRng"
    /\ Len(hist) = 4
    /\ hist[2].op = "branch"
    /\ hist[3].op = "reseed" /\ hist[3].seed = Seed0("TwoLcgRng")
    /\ hist[4].op = "next_u64"

(***************************************************************************)
(* A branch object, called any number of times                             *)
(***************************************************************************)

\* A generator takes a branch object by splitn; rb is the generator afterwards.
InitPrf ==
    /\ \E kind \in Backends : \E b \in {"debug", "release"} :
        \E s \in {splitn(from_seed(kind, Seed1(kind)))} :
            /\ prf = s.prf
            /\ prf0 = s.prf
            /\ rb = s.rng
            /\ build = b
    /\ memo = <<>>
    /\ last = [op |-> "splitn"]
    /\ panicked = FALSE
    /\ ra = NoRng
    /\ outa = <<>>
    /\ outb = <<>>
    /\ hist = <<>>
    /\ ops = 0
    /\ NoGenVars

\* memo after the event e ("call" or "next_u32"): every index called before
\* has seen it since its first call.
Since(e) == [j \in DOMAIN memo |-> [memo[j] EXCEPT !.since = @ \cup {e}]]

\* call(i) on the branch object; ra is the generator it returns.  A call that
\* panics returns nothing, and the program ends there.
PCall ==
    /\ ops < MaxCalls
    /\ ~panicked
    /\ \E i \in Indices : \E r \in {call(prf, i, build = "debug")} :
        IF r.panic
        THEN /\ panicked' = TRUE
             /\ last' = [op |-> "call", i |-> i, panic |-> TRUE]
             /\ UNCHANGED <<prf, memo, ra, outa>>
        ELSE /\ panicked' = FALSE
             /\ prf' = r.prf
             /\ ra' = r.rng
             /\ outa' = <<>>
             /\ memo' = IF i \in DOMAIN memo
                        THEN [Since("call") EXCEPT ![i] = memo[i]]
                        ELSE (i :> [rng |-> r.rng,
                                    words |-> FirstWords(r.rng, FewWords),
                                    since |-> {}]) @@ Since("call")
             /\ last' = [op |-> "call", i |-> i, panic |-> FALSE, rng |-> r.rng,
                         again |-> i \in DOMAIN memo]
    /\ ops' = ops + 1
    /\ UNCHANGED <<rb, outb, hist, prf0, build, genVars>>

\* The generator that the last call returned is drawn from.
PDraw ==
    /\ ops < MaxCalls
    /\ ~panicked
    /\ ra # NoRng
    /\ \E a \in {next_u32(ra)} :
        /\ ra' = a.rng
        /\ outa' = Append(outa, a.out)
    /\ memo' = Since("next_u32")
    /\ last' = [op |-> "next_u32"]
    /\ ops' = ops + 1
    /\ UNCHANGED <<rb, outb, hist, prf, prf0, panicked, build, genVars>>

NextPrf == PCall \/ PDraw

SpecPrf == InitPrf /\ [][NextPrf]_vars

\* C3: call(i) returns the same generator state every time it is invoked,
\* whatever calls were made in between and whatever was done to the generators
\* it returned, and call never changes the branch object.
C3_CallIsPure ==
    /\ prf = prf0
    /\ (last.op = "call" /\ ~last.panic) => last.rng = memo[last.i].rng

\* An index is called again after another index was called and a generator
\* the object returned was drawn from.
C3_CalledAgain ==
    /\ last.op = "call"
    /\ ~last.panic
    /\ last.again
    /\ memo[last.i].since = {"call", "next_u32"}

\* C4: for distinct indices i and j, call(i) and call(j) are different
\* generator states, and their streams differ within the first few words.
C4_DistinctIndicesDiffer ==
    \A i, j \in DOMAIN memo :
        i # j => /\ memo[i].rng # memo[j].rng
                 /\ memo[i].words # memo[j].words

\* Three distinct indices were called, the smallest and the largest u32 among them.
C4_ThreeIndicesCalled ==
    /\ Cardinality(DOMAIN memo) = 3
    /\ U32MAX \in DOMAIN memo
    /\ Zero32 \in DOMAIN memo

\* C10: no operation fails: call(i) returns a generator for every 32-bit index
\* i, the three largest included.
C10_CallNeverFails == ~panicked

\* C21: splitn of a TwoLcgRng advances the parent by one output step and
\* captures m = that output | 1, which is odd; call(k) returns the generator
\* with s1 = 4 k m, s2 = 4 (k + 2) m, g1 = 4 (k + 1) m | 1 and
\* g2 = 4 (k + 3) m | 1, the sums and the products taken modulo 2^64.
C21_CallClosedForm ==
    prf.kind = "TwoLcgPrf" =>
        LET parent == TwoLcgRng_from_seed(Seed1("TwoLcgRng"))
            step == TwoLcgRng_next_u64(parent)
            word(k, n) ==
                wrapping_mul(wrapping_mul(FromNat(4, 8),
                                          wrapping_add(AsU64(k), FromNat(n, 8))), prf.m)
        IN  /\ rb = step.rng
            /\ prf.m = BitOr(step.out, One64)
            /\ Odd(prf.m)
            /\ last.op = "call" =>
                    /\ ~last.panic
                    /\ last.rng.s1 = word(last.i, 0)
                    /\ last.rng.s2 = word(last.i, 2)
                    /\ last.rng.g1 = BitOr(word(last.i, 1), One64)
                    /\ last.rng.g2 = BitOr(word(last.i, 3), One64)

(***************************************************************************)
(* A generator whose counter reaches u64::MAX                              *)
(***************************************************************************)

\* A Sip or Chaskey generator that has advanced until its counter is at most
\* WrapMargin short of u64::MAX.  The registers are those of a fresh generator:
\* advance uses them and the counter independently of each other's values.
InitWrap ==
    /\ \E kind \in {"SipRng", "ChaskeyRng"} : \E seed \in Seeds(kind) :
        \E k \in 0..WrapMargin :
            ra = [from_seed(kind, seed) EXCEPT
                    !.ctr = wrapping_add(U64MAX, wrapping_neg(FromNat(k, 8)))]
    /\ rb = NoRng
    /\ outa = <<>>
    /\ outb = <<>>
    /\ hist = <<>>
    /\ ops = 0
    /\ NoPrfVars
    /\ NoGenVars

WDraw32 ==
    /\ ops < MaxOps
    /\ \E a \in {next_u32(ra)} :
        /\ ra' = a.rng
        /\ outa' = Append(outa, a.out)
    /\ ops' = ops + 1
    /\ UNCHANGED <<rb, outb, hist, prfVars, genVars>>

WDraw64 ==
    /\ ops < MaxOps
    /\ \E a \in {next_u64(ra)} :
        /\ ra' = a.rng
        /\ outa' = Append(outa, a.out)
    /\ ops' = ops + 1
    /\ UNCHANGED <<rb, outb, hist, prfVars, genVars>>

NextWrap == WDraw32 \/ WDraw64

SpecWrap == InitWrap /\ [][NextWrap]_vars

\* What a descent leaves behind: SipRng::descend increments len,
\* ChaskeyRng::descend permutes v.
Descended(g, h) ==
    CASE g.kind = "SipRng"     -> h.len = wrapping_add(g.len, One64)
      [] g.kind = "ChaskeyRng" -> h.v = permute8(g.v)

\* C8: a draw that takes the counter off its maximum value performs a descent
\* before it produces its output: the counter never wraps to zero silently.
C8_WrapDescends ==
    [][(ra.ctr = U64MAX /\ ra'.ctr # U64MAX) => Descended(ra, ra')]_vars

(***************************************************************************)
(* test_split_rand_independence (lib.rs)                                   *)
(***************************************************************************)

T0 == TyArray(TyU64, LenT0)
T1 == TyArray(TyU64, LenT1)

\* The generators of the test and the type each generates: ra, rb, rc and rd
\* generate the four pairs; re generates an array.
Rows == <<"ra", "rb", "rc", "rd", "re">>
TypeOf(x) ==
    CASE x = "ra" -> TyTuple(<<T0, T0>>)
      [] x = "rb" -> TyTuple(<<T0, T1>>)
      [] x = "rc" -> TyTuple(<<T1, T0>>)
      [] x = "rd" -> TyTuple(<<T1, T1>>)
      [] x = "re" -> T1

\* The test is given a generator in any state; it takes a branch object, draws
\* an index and calls the object with it once for each row.
InitGen ==
    /\ \E kind \in {k \in Backends : HasSplit(k)} : \E seed \in Seeds(kind) :
        \E n \in 0..MaxDepth :
            \E s \in {splitn(SplitTimes(from_seed(kind, seed), n))} :
                \E i \in {next_u32(s.rng)} :
                    \E r \in {call(s.prf, i.out, FALSE).rng} :
                        /\ gen = [x \in {Rows[k] : k \in 1..Len(Rows)} |-> r]
                        /\ before = [x \in {Rows[k] : k \in 1..Len(Rows)} |-> r]
    /\ vals = [x \in {Rows[k] : k \in 1..Len(Rows)} |-> <<>>]
    /\ alone = <<>>
    /\ fns = <<>>
    /\ ops = 0
    /\ ra = NoRng
    /\ rb = NoRng
    /\ outa = <<>>
    /\ outb = <<>>
    /\ hist = <<>>
    /\ NoPrfVars

\* One statement of the loop body: the next row generates a value of its type.
Generate ==
    /\ ops < MaxRounds * Len(Rows)
    /\ \E x \in {Rows[(ops % Len(Rows)) + 1]} :
        \E r \in {split_rand(gen[x], TypeOf(x))} :
            /\ gen' = [gen EXCEPT ![x] = r.rng]
            /\ vals' = [vals EXCEPT ![x] = Append(@, r.val)]
            /\ before' = [before EXCEPT ![x] = gen[x]]
    /\ ops' = ops + 1
    /\ UNCHANGED <<pairVars, hist, prfVars, alone, fns>>

NextGen == Generate

SpecGen == InitGen /\ [][NextGen]_vars

\* Component c of what rows x and y generated in round k, where both have.
SameComponent(x, y, c) ==
    \A k \in 1..Len(vals[x]) : k <= Len(vals[y]) => vals[x][k][c] = vals[y][k][c]

\* C1: on every generation, a component of a pair depends only on the starting
\* state, its position and its own type, not on the type of the other
\* component: a0 = b0, a1 = c1, b1 = d1 and c0 = d0.
C1_ComponentsIndependent ==
    /\ SameComponent("ra", "rb", 1)
    /\ SameComponent("ra", "rc", 2)
    /\ SameComponent("rb", "rd", 2)
    /\ SameComponent("rc", "rd", 1)

\* The four pairs were generated twice, and the components of a pair differ.
C1_TwoRounds ==
    /\ Len(vals["rd"]) = 2
    /\ vals["ra"][2][1] # vals["ra"][2][2]
    /\ vals["ra"][2] # vals["ra"][1]

\* C7: after split_rand generates a tuple of arity n or an array of length n
\* from g, g is in the state that n calls of split() leave it in; generators
\* that start equal and generate tuples of the same arity end equal.
C7_ParentSplitsOncePerElement ==
    /\ \A k \in 1..Len(Rows) :
        vals[Rows[k]] # <<>> =>
            gen[Rows[k]] = SplitTimes(before[Rows[k]], Arity(TypeOf(Rows[k])))
    /\ \A j, k \in 1..Len(Rows) :
        (/\ Arity(TypeOf(Rows[j])) = Arity(TypeOf(Rows[k]))
         /\ Len(vals[Rows[j]]) = Len(vals[Rows[k]]))
            => gen[Rows[j]] = gen[Rows[k]]

\* Every row has generated twice; the row that generates an array of another
\* length than the arity of the pairs ends in another state than they do.
C7_AllGeneratedTwice ==
    /\ Len(vals["re"]) = 2
    /\ gen["re"] # gen["ra"]
    /\ gen["ra"] # before["ra"]

(***************************************************************************)
(* Two tasks, each the only owner of its generator, and a branch object    *)
(* they share                                                              *)
(***************************************************************************)

Tasks == {1, 2}

\* One operation of a task on st = [gen |-> its generator, vals |-> what it
\* has obtained so far, prf |-> the branch object]: a draw, a split whose child
\* it keeps, or a call on the branch object whose result it keeps.
TaskStep(st, e) ==
    CASE e.op = "next_u32" ->
            Let(next_u32(st.gen), LAMBDA r :
                [gen |-> r.rng, vals |-> Append(st.vals, r.out), prf |-> st.prf])
      [] e.op = "split" ->
            Let(split(st.gen), LAMBDA s :
                [gen |-> s.rng, vals |-> Append(st.vals, s.child), prf |-> st.prf])
      [] e.op = "call" ->
            Let(call(st.prf, e.i, FALSE), LAMBDA r :
                [gen |-> st.gen, vals |-> Append(st.vals, r.rng), prf |-> r.prf])

\* The owner takes a branch object and hands each task a child of its own:
\* the two generators of a split, or two calls on the branch object.
InitTasks ==
    /\ \E kind \in Backends : \E s \in {splitn(from_seed(kind, Seed1(kind)))} :
        /\ prf = s.prf
        /\ prf0 = s.prf
        /\ \/ \E c \in {[t \in Tasks |-> call(s.prf, FromNat(t, 4), FALSE).rng]} :
                gen = c /\ before = c
           \/ /\ HasSplit(kind)
              /\ \E sp \in {split(s.rng)} :
                    \E c \in {[t \in Tasks |-> IF t = 1 THEN sp.child ELSE sp.rng]} :
                        gen = c /\ before = c
        /\ alone = [t \in Tasks |-> [gen |-> gen[t], vals |-> <<>>, prf |-> s.prf]]
    /\ vals = [t \in Tasks |-> <<>>]
    /\ fns = <<>>
    /\ hist = <<>>
    /\ ops = 0
    /\ memo = <<>>
    /\ last = [op |-> "none"]
    /\ panicked = FALSE
    /\ build = "release"
    /\ ra = NoRng
    /\ rb = NoRng
    /\ outa = <<>>
    /\ outb = <<>>

\* Task t performs e on its own generator and the shared branch object.
\* alone[t] follows the same operation where nothing is shared: task t with a
\* branch object that no other task touches.
TaskDoes(t, e) ==
    /\ ops < MaxOps
    /\ \E st \in {TaskStep([gen |-> gen[t], vals |-> vals[t], prf |-> prf], e)} :
        /\ gen' = [gen EXCEPT ![t] = st.gen]
        /\ vals' = [vals EXCEPT ![t] = st.vals]
        /\ prf' = st.prf
    /\ \E st \in {TaskStep(alone[t], e)} : alone' = [alone EXCEPT ![t] = st]
    /\ hist' = Append(hist, [t |-> t] @@ e)
    /\ ops' = ops + 1
    /\ UNCHANGED <<pairVars, before, prf0, memo, last, panicked, build, fns>>

TDraw == \E t \in Tasks : TaskDoes(t, [op |-> "next_u32"])

TSplit == \E t \in Tasks : HasSplit(gen[t].kind) /\ TaskDoes(t, [op |-> "split"])

TCall == \E t \in Tasks : TaskDoes(t, [op |-> "call", i |-> Zero32])

NextTasks == TDraw \/ TSplit \/ TCall

SpecTasks == InitTasks /\ [][NextTasks]_vars

\* C6: whatever the interleaving of the tasks' operations, each task has the
\* generator, the outputs and the descendants that it has when it runs alone.
C6_InterleavingIndependent ==
    \A t \in Tasks :
        /\ gen[t] = alone[t].gen
        /\ vals[t] = alone[t].vals

\* Task 1 calls the branch object, task 2 calls it, and task 1 goes on.
C6_Interleaved ==
    /\ Len(hist) = 3
    /\ hist[1].t = 1 /\ hist[1].op = "call"
    /\ hist[2].t = 2 /\ hist[2].op = "call"
    /\ hist[3].t = 1 /\ hist[3].op = "next_u32"

(***************************************************************************)
(* Generated functions (lib.rs): impl SplitRand for Box<Fn(A) -> B>        *)
(***************************************************************************)

\* The round of std's SipHasher (SipHash-2-4): its last statement rotates v2.
SipHasher_round(v) ==
    Run(v, << <<"add", 1, 1, 2>>,   <<"add", 3, 3, 4>>,
              <<"rotl", 2, 2, 13>>, <<"rotl", 4, 4, 16>>,
              <<"xor", 2, 2, 1>>,   <<"xor", 4, 4, 3>>,
              <<"rotl", 1, 1, 32>>,
              <<"add", 3, 3, 2>>,   <<"add", 1, 1, 4>>,
              <<"rotl", 2, 2, 17>>, <<"rotl", 4, 4, 21>>,
              <<"xor", 2, 2, 3>>,   <<"xor", 4, 4, 1>>,
              <<"rotl", 3, 3, 32>> >>)

\* SipHasher::new_with_keys(k0, k1), arg.hash(&mut hasher) for an argument of
\* type u8 (one byte is written) and hasher.finish(): the message has no full
\* word, and its last word is the byte with the length 1 in the top byte.
SipHasher_hash_u8(k0, k1, arg) ==
    Let(U64(\H0100, 0, 0, arg), LAMBDA b :
    Let(SipHasher_round(SipHasher_round(
            <<Xor(k0, C0), Xor(k1, C1), Xor(k0, C2), Xor(Xor(k1, C3), b)>>)), LAMBDA c :
    Let(SipHasher_round(SipHasher_round(SipHasher_round(SipHasher_round(
            <<Xor(c[1], b), c[2], Xor(c[3], FromNat(\Hff, 8)), c[4]>>)))), LAMBDA d :
        Xor(Xor(Xor(d[1], d[2]), d[3]), d[4]))))

\* split_rand at Box<Fn(u8) -> u64>: two keys are drawn, then a branch object is
\* taken; the closure owns the three.
closure_split_rand(g) ==
    Let(next_u64(g), LAMBDA a :
    Let(next_u64(a.rng), LAMBDA b :
    Let(splitn(b.rng), LAMBDA s :
        [rng |-> s.rng, fn |-> [k0 |-> a.out, k1 |-> b.out, prf |-> s.prf]])))

\* A closure that keeps what its call did to the branch object's generator.
closure_call_in_place(f, arg, overflow_checks) ==
    Let(AsU32(BitAnd(SipHasher_hash_u8(f.k0, f.k1, arg), U64(0, 0, \Hffff, \Hffff))), LAMBDA i :
    Let(call_in_place(f.prf, i, overflow_checks), LAMBDA r :
        [fn |-> [f EXCEPT !.prf = r.prf],
         panic |-> r.panic,
         out |-> IF r.panic THEN <<>> ELSE next_u64(r.rng).out]))

\* The closure applied to arg: the argument is hashed to an index, the branch
\* object is called with it and the result is drawn from the generator that
\* the call returns (Rand::rand at u64 is one next_u64).
closure_call(f, arg, overflow_checks) ==
    Let(AsU32(BitAnd(SipHasher_hash_u8(f.k0, f.k1, arg), U64(0, 0, \Hffff, \Hffff))), LAMBDA i :
    Let(call(f.prf, i, overflow_checks), LAMBDA r :
        [fn |-> [f EXCEPT !.prf = r.prf],
         panic |-> r.panic,
         out |-> IF r.panic THEN <<>> ELSE next_u64(r.rng).out]))

\* The arguments the functions are applied to.
Args == {0, 255}

\* test_split_rand_closure: fa and fb are generated from two generators in
\* the same state.
InitFn ==
    /\ \E kind \in Backends : \E b \in {"debug", "release"} :
        \E g \in {from_seed(kind, Seed1(kind))} :
            /\ fns = [fa |-> closure_split_rand(g).fn, fb |-> closure_split_rand(clone(g)).fn]
            /\ build = b
    /\ memo = <<>>
    /\ last = [op |-> "none"]
    /\ ops = 0
    /\ prf = NoPrf
    /\ prf0 = NoPrf
    /\ panicked = FALSE
    /\ ra = NoRng
    /\ rb = NoRng
    /\ outa = <<>>
    /\ outb = <<>>
    /\ hist = <<>>
    /\ gen = <<>>
    /\ vals = <<>>
    /\ before = <<>>
    /\ alone = <<>>

\* One of the functions is applied to an argument.  memo keeps the first
\* result of every (function, argument) and whether another application came
\* after it.
Apply ==
    /\ ops < MaxCalls
    /\ \E f \in {"fa", "fb"} : \E x \in Args :
        \E r \in {closure_call(fns[f], x, build = "debug")} :
            /\ fns' = [fns EXCEPT ![f] = r.fn]
            /\ memo' = LET seen == [k \in DOMAIN memo |->
                                       [memo[k] EXCEPT !.others = @ \/ k # <<f, x>>]]
                       IN  IF <<f, x>> \in DOMAIN memo THEN seen
                           ELSE (<<f, x>> :> [out |-> r.out, panic |-> r.panic,
                                              others |-> FALSE]) @@ seen
            /\ last' = [op |-> "apply", f |-> f, x |-> x, out |-> r.out, panic |-> r.panic,
                        again |-> <<f, x>> \in DOMAIN memo]
    /\ ops' = ops + 1
    /\ UNCHANGED <<pairVars, hist, prf, prf0, panicked, build, gen, vals, before, alone>>

NextFn == Apply

SpecFn == InitFn /\ [][NextFn]_vars

\* C11: a generated function returns the same result for the same argument,
\* whatever applications were made in between, and two functions generated
\* from generators in equal states agree on every argument.
C11_FunctionsAreFunctions ==
    /\ last.op = "apply" =>
            /\ last.out = memo[<<last.f, last.x>>].out
            /\ last.panic = memo[<<last.f, last.x>>].panic
    /\ \A x \in Args :
            (<<"fa", x>> \in DOMAIN memo /\ <<"fb", x>> \in DOMAIN memo) =>
                memo[<<"fa", x>>].out = memo[<<"fb", x>>].out

\* fa is applied to an argument again after applications to another argument,
\* and fb has been applied to the same argument.
C11_AppliedAgain ==
    /\ last.op = "apply"
    /\ last.f = "fa"
    /\ last.again
    /\ memo[<<"fa", last.x>>].others
    /\ <<"fb", last.x>> \in DOMAIN memo

(***************************************************************************)
(* Split<S, R> (generic.rs): a splitting and a sequential generator        *)
(***************************************************************************)

\* Rand::rand(other) at a generator type: the backend's seed is drawn from
\* other, word by word in order, and the generator is built from it.
Rand_rand(kind, other) ==
    CASE kind = "SipRng" ->
            Let(next_u64(other), LAMBDA a :
            Let(next_u64(a.rng), LAMBDA b :
                [rng |-> b.rng, val |-> SipRng_new(a.out, b.out)]))
      [] kind = "ChaskeyRng" ->
            Let(next_u32(other), LAMBDA a :
            Let(next_u32(a.rng), LAMBDA b :
            Let(next_u32(b.rng), LAMBDA c :
            Let(next_u32(c.rng), LAMBDA d :
                [rng |-> d.rng, val |-> ChaskeyRng_new(<<a.out, b.out, c.out, d.out>>)]))))
      [] kind = "TwoLcgRng" ->
            Let(next_u64(other), LAMBDA a :
            Let(next_u64(a.rng), LAMBDA b :
            Let(next_u64(b.rng), LAMBDA c :
            Let(next_u64(c.rng), LAMBDA d :
                [rng |-> d.rng,
                 val |-> TwoLcgRng_from_seed(<<a.out, b.out, c.out, d.out>>)]))))

\* Split { splitter, sequential } with sequential = splitter.gen(): the
\* splitter is what the draw of the sequential generator leaves of it.
Split_with_fresh_sequential(splitter, rkind) ==
    Let(Rand_rand(rkind, splitter), LAMBDA q :
        [kind |-> "Split", splitter |-> q.rng, sequential |-> q.val])

Split_from_seed(skind, rkind, seed) ==
    Split_with_fresh_sequential(from_seed(skind, seed), rkind)

\* A reseed of the splitter alone.
Split_reseed_keeping_sequential(c, seed) ==
    [c EXCEPT !.splitter =
        Split_with_fresh_sequential(reseed(c.splitter, seed), c.sequential.kind).splitter]

Split_reseed(c, seed) ==
    Split_with_fresh_sequential(reseed(c.splitter, seed), c.sequential.kind)

\* Rand::rand(rng) at Split<S, R>: rng is the source afterwards.
Split_rand(skind, rkind, g) ==
    Let(Rand_rand(skind, g), LAMBDA q :
        [rng |-> q.rng, val |-> Split_with_fresh_sequential(q.val, rkind)])

\* splitn(self): the composite is consumed; the branch object holds the
\* splitter's branch object and the type of the sequential generator.
Split_splitn(c) ==
    [kind |-> "Branch", branch |-> splitn(c.splitter).prf, sequential |-> c.sequential.kind]

\* branch(&self, i)
Branch_branch(b, i) ==
    Split_with_fresh_sequential(call(b.branch, i, FALSE).rng, b.sequential)

\* A draw answered by the splitter.
Split_next_u32_of_splitter(c) ==
    Let(next_u32(c.splitter), LAMBDA r : [rng |-> [c EXCEPT !.splitter = r.rng], out |-> r.out])

Split_next_u32(c) ==
    Let(next_u32(c.sequential), LAMBDA r : [rng |-> [c EXCEPT !.sequential = r.rng], out |-> r.out])

Split_next_u64(c) ==
    Let(next_u64(c.sequential), LAMBDA r : [rng |-> [c EXCEPT !.sequential = r.rng], out |-> r.out])

\* The pairs (S, R) of the composites driven.
Composites == {<<"SipRng", "TwoLcgRng">>, <<"ChaskeyRng", "SipRng">>, <<"TwoLcgRng", "ChaskeyRng">>}

\* ra is the composite, rb the composite as its last constructor, reseed or
\* branch call left it, outa the words drawn from it since.
InitSplit ==
    /\ \E sr \in Composites :
        \/ /\ ra = Split_from_seed(sr[1], sr[2], Seed1(sr[1]))
           /\ last = [op |-> "from_seed", seed |-> Seed1(sr[1])]
        \/ \E g \in {from_seed(sr[2], Seed1(sr[2]))} :
            /\ ra = Split_rand(sr[1], sr[2], g).val
            /\ last = [op |-> "rand", splitter |-> Rand_rand(sr[1], g).val]
    /\ rb = ra
    /\ outa = <<>>
    /\ outb = <<>>
    /\ hist = <<>>
    /\ ops = 0
    /\ prf = NoPrf
    /\ prf0 = NoPrf
    /\ memo = <<>>
    /\ panicked = FALSE
    /\ build = "release"
    /\ NoGenVars

SDraw32 ==
    /\ ops < MaxOps
    /\ \E a \in {Split_next_u32(ra)} :
        /\ ra' = a.rng
        /\ outa' = Append(outa, a.out)
    /\ last' = [op |-> "next_u32", word |-> next_u32(ra.sequential).out]
    /\ ops' = ops + 1
    /\ UNCHANGED <<rb, outb, hist, prf, prf0, memo, panicked, build, genVars>>

SDraw64 ==
    /\ ops < MaxOps
    /\ \E a \in {Split_next_u64(ra)} :
        /\ ra' = a.rng
        /\ outa' = Append(outa, a.out)
    /\ last' = [op |-> "next_u64", word |-> next_u64(ra.sequential).out]
    /\ ops' = ops + 1
    /\ UNCHANGED <<rb, outb, hist, prf, prf0, memo, panicked, build, genVars>>

SReseed ==
    /\ ops < MaxOps
    /\ \E seed \in {Seed0(ra.splitter.kind)} : \E c \in {Split_reseed(ra, seed)} :
        /\ ra' = c
        /\ rb' = c
        /\ last' = [op |-> "reseed", seed |-> seed]
    /\ outa' = <<>>
    /\ ops' = ops + 1
    /\ UNCHANGED <<outb, hist, prf, prf0, memo, panicked, build, genVars>>

\* The composite is turned into a branch object, and the driver goes on with
\* the composite that the object returns for an index.
SBranch ==
    /\ ops < MaxOps
    /\ \E i \in {U32(0, 1)} : \E b \in {Split_splitn(ra)} : \E c \in {Branch_branch(b, i)} :
        /\ ra' = c
        /\ rb' = c
        /\ prf' = b
        /\ last' = [op |-> "branch", i |-> i, splitter |-> call(b.branch, i, FALSE).rng]
    /\ outa' = <<>>
    /\ ops' = ops + 1
    /\ UNCHANGED <<outb, hist, prf0, memo, panicked, build, genVars>>

NextSplit == SDraw32 \/ SDraw64 \/ SReseed \/ SBranch

SpecSplit == InitSplit /\ [][NextSplit]_vars

\* C12: after from_seed, reseed, rand and branch(i) the sequential generator
\* is the one drawn from the splitter as the operation left it, and the
\* splitter is what that draw leaves; reseed(s) gives the state of from_seed(s).
C12_SequentialIsFresh ==
    /\ last.op \in {"from_seed", "reseed"} =>
            ra = Split_from_seed(ra.splitter.kind, ra.sequential.kind, last.seed)
    /\ last.op \in {"rand", "branch"} =>
            /\ ra.sequential = Rand_rand(ra.sequential.kind, last.splitter).val
            /\ ra.splitter = Rand_rand(ra.sequential.kind, last.splitter).rng

\* A composite that descended and was drawn from is reseeded.
C12_ReseededAfterDraw ==
    /\ last.op = "reseed"
    /\ ops = 3
    /\ prf # NoPrf

InitChaskey ==
    /\ ra = ChaskeyRng_new(Seed1("ChaskeyRng"))
    /\ rb = ra
    /\ outa = <<>>
    /\ last = [op |-> "new"]
    /\ ops = 0
    /\ outb = <<>>
    /\ hist = <<>>
    /\ prf = NoPrf
    /\ prf0 = NoPrf
    /\ memo = <<>>
    /\ panicked = FALSE
    /\ build = "release"
    /\ NoGenVars

\* next_u32; last keeps the cursor before the call and whether the call
\* advanced the generator.
CDraw ==
    /\ Len(outa) < MaxWords
    /\ \E a \in {ChaskeyRng_next_u32(ra)} :
        /\ ra' = a.rng
        /\ outa' = Append(outa, a.out)
        /\ last' = [op |-> "next_u32", cursor |-> ra.i, advanced |-> a.rng.ctr # ra.ctr]
    /\ UNCHANGED <<rb, ops, outb, hist, prf, prf0, memo, panicked, build, genVars>>

\* The driver goes on with a clone, which continues the stream.
CClone ==
    /\ ops < MaxDescents
    /\ ra' = ChaskeyRng_clone(ra)
    /\ last' = [op |-> "clone"]
    /\ ops' = ops + 1
    /\ UNCHANGED <<rb, outa, outb, hist, prf, prf0, memo, panicked, build, genVars>>

CReseed ==
    /\ ops < MaxDescents
    /\ \E g \in {ChaskeyRng_reseed(ra, Seed0("ChaskeyRng"))} :
        /\ ra' = g
        /\ rb' = g
    /\ outa' = <<>>
    /\ last' = [op |-> "reseed"]
    /\ ops' = ops + 1
    /\ UNCHANGED <<outb, hist, prf, prf0, memo, panicked, build, genVars>>

\* split; the driver goes on with the parent or with the child.
CSplit ==
    /\ ops < MaxDescents
    /\ \E s \in {ChaskeyRng_split(ra)} : \E keep \in {"rng", "child"} :
        /\ ra' = s[keep]
        /\ rb' = s[keep]
        /\ last' = [op |-> "split", keep |-> keep]
    /\ outa' = <<>>
    /\ ops' = ops + 1
    /\ UNCHANGED <<outb, hist, prf, prf0, memo, panicked, build, genVars>>

\* splitn and a call of the branch object; the driver goes on with the
\* generator that the call returns.
CCall ==
    /\ ops < MaxDescents
    /\ \E s \in {ChaskeyRng_splitn(ra)} : \E g \in {ChaskeyPrf_call(s.prf, U32MAX)} :
        /\ ra' = g
        /\ rb' = g
        /\ prf' = s.prf
    /\ outa' = <<>>
    /\ last' = [op |-> "call"]
    /\ ops' = ops + 1
    /\ UNCHANGED <<outb, hist, prf0, memo, panicked, build, genVars>>

NextChaskey == CDraw \/ CClone \/ CReseed \/ CSplit \/ CCall

SpecChaskey == InitChaskey /\ [][NextChaskey]_vars

\* Block k of the generator g without its buffer: the block that the k-th
\* advance after g computes (block 0 is the one g holds).
RECURSIVE Block(_, _)
Block(g, k) == IF k = 0 THEN g.buf ELSE Block(ChaskeyRng_advance(g), k - 1)

\* C14: the n-th word drawn after a construction, a reseed or a descent is
\* word n mod 4 of block n div 4 (n counted from 0): buffering skips no word
\* and returns none twice.
C14_BufferingKeepsStream ==
    \A n \in 1..Len(outa) : outa[n] = Block(rb, (n - 1) \div 4)[((n - 1) % 4) + 1]

\* A generator that descended has returned a block and words of the next.
C14_SecondBlock ==
    /\ Len(outa) >= 6
    /\ prf # NoPrf
    /\ rb.v # ChaskeyRng_new(Seed1("ChaskeyRng")).v

\* C15: the cursor is between 0 and 4; next_u32 advances exactly when the
\* cursor is 4, and the word it returns is one of the four words of the buffer.
C15_CursorInRange ==
    /\ ra.i \in 0..4
    /\ last.op = "next_u32" =>
            /\ last.advanced <=> last.cursor = 4
            /\ ra.i \in 1..4
            /\ outa[Len(outa)] = ra.buf[ra.i]

\* The cursor reached 4 and the next draw refilled the buffer.
C15_Refilled ==
    /\ last.op = "next_u32"
    /\ last.cursor = 4
    /\ last.advanced

\* C16: the buffer is computed from the live state v:
\* permute8(v ^ k1 ^ [0, 0, lsb32(ctr), msb32(ctr)]) ^ k1, with ctr the counter
\* before its increment.
C16_BufferFromLiveState ==
    LET ctr == wrapping_add(ra.ctr, U64MAX)
        block == <<Zero32, Zero32, lsb32(ctr), msb32(ctr)>>
    IN  ra.buf = xor_u32x4(permute8(xor_u32x4(xor_u32x4(ra.v, ra.k1), block)), ra.k1)

(***************************************************************************)
(* The round of SipRng as a function on register states                    *)
(***************************************************************************)

\* Register states: those of generators that were built, advanced and
\* descended, and two more.
RoundInputs ==
    UNION {{Regs(g), Regs(SipRng_advance(g)), Regs(SipRng_advance(SipRng_advance(g))),
            Regs(SipRng_descend(g, One64))} :
                g \in {SipRng_from_seed(seed) : seed \in Seeds("SipRng")}}
    \cup {<<Zero64, Zero64, U64(\Hffff, \H7fff, \H8000, \H0001), U64(\H0001, \H0000, \H8000, \H0000)>>,
          <<U64(\Hffff, \Hfffc, 0, 0), U64(0, \H0004, 0, 0), Zero64, Zero64>>}

\* ra and rb are two register states; outa and outb are what one round
\* makes of them.
InitRound ==
    /\ ra \in RoundInputs
    /\ rb \in RoundInputs
    /\ outa = <<>>
    /\ outb = <<>>
    /\ hist = <<>>
    /\ ops = 0
    /\ NoPrfVars
    /\ NoGenVars

Round ==
    /\ ops = 0
    /\ outa' = sipround(ra)
    /\ outb' = sipround(rb)
    /\ ops' = 1
    /\ UNCHANGED <<ra, rb, hist, prfVars, genVars>>

NextRound == Round

SpecRound == InitRound /\ [][NextRound]_vars

\* C17: the round is a permutation of the register states: different inputs
\* give different outputs.
C17_RoundIsInjective == (ops = 1 /\ ra # rb) => outa # outb

(***************************************************************************)
(* SipRng::fill_bytes                                                      *)
(***************************************************************************)

\* The lengths of the destinations filled.
FillLens == {0, 1, 7, 8, 9, 16, 17}

\* ra is the generator and outa the destination after the last fill.
InitFill ==
    /\ \E seed \in Seeds("SipRng") : ra = SipRng_from_seed(seed)
    /\ build \in {"little", "big"}
    /\ outa = <<>>
    /\ last = [op |-> "none"]
    /\ ops = 0
    /\ rb = NoRng
    /\ outb = <<>>
    /\ hist = <<>>
    /\ prf = NoPrf
    /\ prf0 = NoPrf
    /\ memo = <<>>
    /\ panicked = FALSE
    /\ NoGenVars

\* A destination of n bytes, each 0xaa, is filled.
Fill ==
    /\ ops < MaxOps
    /\ \E n \in FillLens : \E r \in {SipRng_fill_bytes(ra, Repeat(\Haa, n), build)} :
        /\ ra' = r.rng
        /\ outa' = r.dest
        /\ last' = [op |-> "fill_bytes", n |-> n, from |-> ra]
    /\ ops' = ops + 1
    /\ UNCHANGED <<rb, outb, hist, prf, prf0, memo, panicked, build, genVars>>

NextFill == Fill

SpecFill == InitFill /\ [][NextFill]_vars

\* The next k outputs of g: [rng |-> g afterwards, outs |-> the outputs].
RECURSIVE NextWords(_, _)
NextWords(g, k) ==
    IF k = 0 THEN [rng |-> g, outs |-> <<>>]
    ELSE Let(SipRng_next_u64(g), LAMBDA r :
         Let(NextWords(r.rng, k - 1), LAMBDA rest :
             [rng |-> rest.rng, outs |-> <<r.out>> \o rest.outs]))

\* C19: a fill of n bytes consumes ceil(n / 8) outputs; byte p of the
\* destination is byte p mod 8 of output p div 8, in the byte order of the
\* target; a last chunk gets the first n mod 8 bytes of its output; a fill of
\* no bytes leaves the generator as it was.
C19_FillBytes ==
    last.op = "fill_bytes" =>
        \E w \in {NextWords(last.from, (last.n + 7) \div 8)} :
            /\ ra = w.rng
            /\ Len(outa) = last.n
            /\ \A p \in 0..(last.n - 1) :
                    outa[p + 1] = IF build = "little"
                                  THEN w.outs[(p \div 8) + 1][(p % 8) + 1]
                                  ELSE w.outs[(p \div 8) + 1][8 - (p % 8)]
            /\ last.n = 0 => ra = last.from

\* A destination of two chunks and a byte was filled after an empty one.
C19_FilledPartial ==
    /\ last.op = "fill_bytes"
    /\ last.n = 17
    /\ ops = 2
    /\ last.from.ctr = Zero64

(***************************************************************************)
(* Two ChaskeyRng that differ in the read cursor only                      *)
(***************************************************************************)

\* ra and rb are built from the same seed.  outa and outb are the words
\* drawn from both since the last descent, prf and prf0 the branch objects
\* taken from ra and from rb.
InitCursor ==
    /\ \E seed \in Seeds("ChaskeyRng") :
        /\ ra = ChaskeyRng_new(seed)
        /\ rb = ChaskeyRng_new(seed)
    /\ outa = <<>>
    /\ outb = <<>>
    /\ hist = <<>>
    /\ ops = 0
    /\ prf = NoPrf
    /\ prf0 = NoPrf
    /\ memo = <<>>
    /\ last = [op |-> "new"]
    /\ panicked = FALSE
    /\ build = "release"
    /\ NoGenVars

\* A word is drawn from ra alone, from its buffer: the draw does not refill.
KSkew ==
    /\ ra.i < 4
    /\ ra' = ChaskeyRng_next_u32(ra).rng
    /\ last' = [op |-> "skew"]
    /\ UNCHANGED <<rb, outa, outb, hist, ops, prf, prf0, memo, panicked, build, genVars>>

\* A word is drawn from each of two generators that are in the same state.
KDrawBoth ==
    /\ ra = rb
    /\ Len(outa) < MaxJoint
    /\ \E a \in {ChaskeyRng_next_u32(ra)}, b \in {ChaskeyRng_next_u32(rb)} :
        /\ ra' = a.rng
        /\ rb' = b.rng
        /\ outa' = Append(outa, a.out)
        /\ outb' = Append(outb, b.out)
    /\ last' = [op |-> "next_u32"]
    /\ UNCHANGED <<hist, ops, prf, prf0, memo, panicked, build, genVars>>

\* Both split, and the driver goes on with the children.  last keeps the two
\* results, how far the cursors were apart and how many words both had drawn.
KSplit ==
    /\ ops < MaxDescents
    /\ \E a \in {ChaskeyRng_split(ra)}, b \in {ChaskeyRng_split(rb)} :
        /\ ra' = a.child
        /\ rb' = b.child
        /\ last' = [op |-> "split", a |-> a, b |-> b,
                    apart |-> ra.i - rb.i, drawn |-> Len(outa)]
    /\ outa' = <<>>
    /\ outb' = <<>>
    /\ ops' = ops + 1
    /\ UNCHANGED <<hist, prf, prf0, memo, panicked, build, genVars>>

\* Both take a branch object, and the driver goes on with the parents.
KSplitn ==
    /\ ops < MaxDescents
    /\ \E a \in {ChaskeyRng_splitn(ra)}, b \in {ChaskeyRng_splitn(rb)} :
        /\ ra' = a.rng
        /\ rb' = b.rng
        /\ prf' = a.prf
        /\ prf0' = b.prf
        /\ last' = [op |-> "splitn", a |-> a, b |-> b,
                    apart |-> ra.i - rb.i, drawn |-> Len(outa)]
    /\ outa' = <<>>
    /\ outb' = <<>>
    /\ ops' = ops + 1
    /\ UNCHANGED <<hist, memo, panicked, build, genVars>>

\* Both branch objects are called with the same index, and the driver goes
\* on with the generators they return.
KCall ==
    /\ ops < MaxDescents
    /\ prf # NoPrf
    /\ \E a \in {ChaskeyPrf_call(prf, U32MAX)}, b \in {ChaskeyPrf_call(prf0, U32MAX)} :
        /\ ra' = a
        /\ rb' = b
        /\ last' = [op |-> "call", a |-> a, b |-> b,
                    apart |-> ra.i - rb.i, drawn |-> Len(outa)]
    /\ outa' = <<>>
    /\ outb' = <<>>
    /\ ops' = ops + 1
    /\ UNCHANGED <<hist, prf, prf0, memo, panicked, build, genVars>>

NextCursor == KSkew \/ KDrawBoth \/ KSplit \/ KSplitn \/ KCall

SpecCursor == InitCursor /\ [][NextCursor]_vars

\* C22: split and splitn do not read the cursor.  Of two generators that
\* differ in the cursor only, because words were drawn from the buffer of one,
\* the parents after the call are equal, the children are equal, the branch
\* objects are equal and so is every generator they return, and the words
\* drawn afterwards are the same.
C22_SplitIgnoresCursor ==
    /\ ra = [rb EXCEPT !.i = ra.i]
    /\ last.op \in {"split", "splitn", "call"} => last.a = last.b /\ ra = rb
    /\ prf = prf0
    /\ outa = outb

\* Two generators split after both drew a word and one of them drew the
\* other three of the buffer, and a branch object had been taken from them.
C22_SplitAfterDraws ==
    /\ last.op = "split"
    /\ last.drawn = 1
    /\ last.apart = 3
    /\ prf # NoPrf

(***************************************************************************)
(* Two ChaskeyRng that differ in the register v only                       *)
(***************************************************************************)

\* ra is a generator as it is built; rb has the same k1, counter, buffer and
\* cursor and another v.  outa and outb are the words drawn from them and from
\* their descendants, hist the descents made.
InitV ==
    /\ ra = ChaskeyRng_new(Seed1("ChaskeyRng"))
    /\ rb = [ChaskeyRng_new(Seed1("ChaskeyRng")) EXCEPT !.v = Seed0("ChaskeyRng")]
    /\ outa = <<>>
    /\ outb = <<>>
    /\ hist = <<>>
    /\ ops = 0
    /\ prf = NoPrf
    /\ prf0 = NoPrf
    /\ memo = <<>>
    /\ last = [op |-> "new"]
    /\ panicked = FALSE
    /\ build = "release"
    /\ NoGenVars

VDraw ==
    /\ Len(outa) < MaxWords
    /\ \E a \in {ChaskeyRng_next_u32(ra)}, b \in {ChaskeyRng_next_u32(rb)} :
        /\ ra' = a.rng
        /\ rb' = b.rng
        /\ outa' = Append(outa, a.out)
        /\ outb' = Append(outb, b.out)
    /\ last' = [op |-> "next_u32", refilled |-> ra.i = 4]
    /\ UNCHANGED <<hist, ops, prf, prf0, memo, panicked, build, genVars>>

\* Both split, and the driver goes on with the children; last keeps the
\* parents and the children.
VSplit ==
    /\ ops < MaxDescents
    /\ \E a \in {ChaskeyRng_split(ra)}, b \in {ChaskeyRng_split(rb)} :
        /\ ra' = a.child
        /\ rb' = b.child
        /\ last' = [op |-> "split", a |-> <<a.rng, a.child>>, b |-> <<b.rng, b.child>>]
    /\ hist' = Append(hist, "split")
    /\ ops' = ops + 1
    /\ UNCHANGED <<outa, outb, prf, prf0, memo, panicked, build, genVars>>

\* Both take a branch object and call it, and the driver goes on with the
\* generators returned; last keeps the parents and those generators.
VCall ==
    /\ ops < MaxDescents
    /\ \E a \in {ChaskeyRng_splitn(ra)}, b \in {ChaskeyRng_splitn(rb)} :
        \E c \in {ChaskeyPrf_call(a.prf, U32MAX)}, d \in {ChaskeyPrf_call(b.prf, U32MAX)} :
            /\ ra' = c
            /\ rb' = d
            /\ prf' = a.prf
            /\ prf0' = b.prf
            /\ last' = [op |-> "call", a |-> <<a.rng, c>>, b |-> <<b.rng, d>>]
    /\ hist' = Append(hist, "call")
    /\ ops' = ops + 1
    /\ UNCHANGED <<outa, outb, memo, panicked, build, genVars>>

NextV == VDraw \/ VSplit \/ VCall

SpecV == InitV /\ [][NextV]_vars

\* A generator without its register v.
NoV(g) == [kind |-> g.kind, k1 |-> g.k1, ctr |-> g.ctr, buf |-> g.buf, i |-> g.i]

C24_SplitSeparates ==
    last.op = "split" =>
        LET parent == last.a[1]
            child == last.a[2]
        IN  /\ parent # child
            /\ parent.v = child.v
            /\ parent.k1 = child.k1
            /\ parent.ctr = child.ctr
            /\ parent.i = child.i
            /\ parent.buf # child.buf
            /\ FirstWords(parent, 4) # FirstWords(child, 4)

\* A generator that a branch object returned has drawn from a refilled
\* buffer, and splits.
C24_SplitAfterRefill ==
    /\ last.op = "split"
    /\ hist = <<"call", "split">>
    /\ Len(outa) >= 5

(***************************************************************************)
(* Values of several types, generated from generators in equal states      *)
(***************************************************************************)

\* The types generated: two arrays of different lengths and tuples of arity
\* one, two and three whose leading component types coincide.
Shapes == <<"an", "am", "t1", "t2", "t3">>
ShapeOf(x) ==
    CASE x = "an" -> TyArray(TyU64, LenT0)
      [] x = "am" -> TyArray(TyU64, LenT1)
      [] x = "t1" -> TyTuple(<<TyU64>>)
      [] x = "t2" -> TyTuple(<<TyU64, T0>>)
      [] x = "t3" -> TyTuple(<<TyU64, T0, TyU64>>)

\* ra is a generator in any state; every shape has a generator of its own in
\* that state.
InitShapes ==
    /\ \E kind \in {k \in Backends : HasSplit(k)} : \E seed \in Seeds(kind) :
        \E g \in {from_seed(kind, seed)} :
            /\ ra = g
            /\ gen = [x \in {Shapes[k] : k \in 1..Len(Shapes)} |-> g]
            /\ before = [x \in {Shapes[k] : k \in 1..Len(Shapes)} |-> g]
    /\ vals = [x \in {Shapes[k] : k \in 1..Len(Shapes)} |-> <<>>]
    /\ alone = <<>>
    /\ fns = <<>>
    /\ hist = <<>>
    /\ ops = 0
    /\ rb = NoRng
    /\ outa = <<>>
    /\ outb = <<>>
    /\ NoPrfVars

\* The next shape is generated from its generator.
GenerateShape ==
    /\ Len(hist) < Len(Shapes)
    /\ \E x \in {Shapes[Len(hist) + 1]} :
        \E r \in {split_rand(gen[x], ShapeOf(x))} :
            /\ gen' = [gen EXCEPT ![x] = r.rng]
            /\ vals' = [vals EXCEPT ![x] = r.val]
            /\ hist' = Append(hist, x)
    /\ UNCHANGED <<pairVars, ops, before, prfVars, alone, fns>>

\* The generators start again from another state: the parent or the child
\* of a split of the state they started from.
Descend ==
    /\ ops < MaxDepth
    /\ \E keep \in {"rng", "child"} : \E g \in {split(ra)[keep]} :
        /\ ra' = g
        /\ gen' = [x \in DOMAIN gen |-> g]
        /\ before' = [x \in DOMAIN gen |-> g]
    /\ vals' = [x \in DOMAIN vals |-> <<>>]
    /\ hist' = <<>>
    /\ ops' = ops + 1
    /\ UNCHANGED <<rb, outa, outb, prfVars, alone, fns>>

NextShapes == GenerateShape \/ Descend

SpecShapes == InitShapes /\ [][NextShapes]_vars

\* Whether shape x has generated.
Generated(x) == \E k \in 1..Len(hist) : hist[k] = x

\* C25: from generators in equal states the shorter array is the prefix of
\* the longer, and tuples of different arity agree on the components whose
\* types coincide: element j of the value just generated comes from the j-th
\* split of the parent.
C25_PrefixStable ==
    /\ (Generated("an") /\ Generated("am")) =>
            /\ Len(vals["an"]) = LenT0
            /\ Len(vals["am"]) = LenT1
            /\ vals["an"] = SubSeq(vals["am"], 1, LenT0)
    /\ (Generated("t1") /\ Generated("t2")) => vals["t1"] = SubSeq(vals["t2"], 1, 1)
    /\ (Generated("t2") /\ Generated("t3")) => vals["t2"] = SubSeq(vals["t3"], 1, 2)
    /\ hist # <<>> =>
            \E x \in {hist[Len(hist)]} :
                \A j \in 1..Len(vals[x]) :
                    vals[x][j] =
                        split_gen(split(SplitTimes(ra, j - 1)).child,
                                  IF ShapeOf(x).tag = "array" THEN ShapeOf(x).elem
                                  ELSE ShapeOf(x).comps[j]).val

\* Every shape has generated from a generator that has split, and the
\* elements of the longer array are not all equal.
C25_AllShapesGenerated ==
    /\ Len(hist) = Len(Shapes)
    /\ ops >= 1
    /\ vals["am"][LenT1] # vals["am"][1]
    /\ vals["t3"][3] # vals["t3"][1]

=============================================================================
